---------------------------- MODULE Spec2Model ----------------------------
(***************************************************************************)
(* Model of traffic.py: the main script (credentials, timeframe clamp,     *)
(* sort, filters, CSV, report), get_repo_traffic (authentication check,    *)
(* repository listing, permission probe, the ThreadPoolExecutor fan-out,   *)
(* the drain of the result queue, the combined metric) and                 *)
(* fetch_repo_traffic (one task per repository).                           *)
(*                                                                         *)
(* A repository is named by its position in the listing (names are unique  *)
(* within one listing).  combined_metrics is a float whose weights are all *)
(* multiples of 0.5; the model keeps it in units of 0.5 (twice the value), *)
(* which is exact for the integers involved.                               *)
(***************************************************************************)
EXTENDS Integers, Sequences, FiniteSets, TLC

VARIABLES
    pc,              \* position of the main thread
    exit_code,       \* -1 while running, else the process exit status
    args,            \* parsed command line (argparse namespace)
    creds_ok,        \* credentials.ini exists and has a [github] section
    server,          \* what the remote API answers (listing, traffic)
    hung,            \* tasks whose first network call never returns
    timeframe,       \* effective timeframe (line 222)
    rate_status,     \* status of the rate-limit response, 0 before the call
    repos,           \* the listing as held by get_repo_traffic
    submitted,       \* number of tasks submitted to the executor
    task,            \* task[i]: stage of the fetch task of repository i
    views_response,  \* views_response[i]: local of task i
    clones_response, \* clones_response[i]: local of task i
    result_queue,    \* queue.Queue shared by the tasks
    traffic_data,    \* list filled by draining the queue
    df,              \* DataFrame returned by get_repo_traffic
    sorted_df,       \* traffic_df as assigned at line 230
    traffic_df,      \* traffic_df as filtered at lines 234 and 238
    requests,        \* number of HTTP requests issued, per endpoint
    out,             \* kinds of messages written to the terminal
    csv              \* the CSV file, if written

vars == <<pc, exit_code, args, creds_ok, server, hung, timeframe, rate_status,
          repos, submitted, task, views_response, clones_response,
          result_queue, traffic_data, df, sorted_df, traffic_df, requests,
          out, csv>>

-----------------------------------------------------------------------------
(* Bounds of the model *)

MaxRepos == 4        \* repositories in a listing (concurrency specification)
RankRepos == 2       \* repositories in a listing (ranking specification)
PoolRepos == 12      \* repositories in a listing (pool specification)
MaxResponsive == 2   \* tasks whose network calls return (pool specification)

(* Program constants *)

BATCH_SIZE == 10     \* max_workers of the ThreadPoolExecutor
API_MAX_DAYS == 14   \* min(args.timeframe, 14)

SortKeys == {"views_total", "views_unique", "clones_total", "clones_unique",
             "stars", "forks", "combined_metrics"}

Endpoints == {"rate_limit", "repos", "probe", "views", "clones"}

-----------------------------------------------------------------------------
(* Inputs *)

Resp(st, c, u, d) == [status |-> st, count |-> c, uniques |-> u, days |-> d]

NoResponse == Resp(0, 0, 0, FALSE)

Repo(s, f, v, c) == [stargazers_count |-> s, forks_count |-> f,
                     views |-> v, clones |-> c]

\* Both calls succeed.
PHealthy == Repo(1, 0, Resp(200, 2, 1, TRUE), Resp(200, 1, 1, FALSE))
\* Views refused (the body still carries numbers), clones succeed.
PNoViews == Repo(0, 1, Resp(403, 3, 2, TRUE), Resp(200, 1, 1, FALSE))
\* Clones refused, views succeed.
PNoClones == Repo(1, 0, Resp(200, 2, 1, TRUE), Resp(404, 2, 2, FALSE))
\* Both refused, only stars known.
PStarsOnly == Repo(2, 0, Resp(403, 1, 1, FALSE), Resp(403, 1, 1, FALSE))
\* Both succeed and everything is zero.
PZero == Repo(0, 0, Resp(200, 0, 0, FALSE), Resp(200, 0, 0, FALSE))

Listings(n, Profiles) == UNION {[1..k -> Profiles] : k \in 0..n}

DefaultArgs == [hide_empty |-> FALSE, no_zero_views |-> FALSE,
                write_csv |-> FALSE, sort_by |-> "combined_metrics",
                timeframe |-> 14]

AuthStatuses == {200, 401, 403}
-----------------------------------------------------------------------------
(* fetch_repo_traffic: pure parts *)

ZeroBody == [count |-> 0, uniques |-> 0, days |-> FALSE]

\* A non-200 response is replaced by {"count": 0, "uniques": 0}; a 200
\* response is read with .json().
TrafficBodyIgnoringStatus(resp) ==
    [count |-> resp.count, uniques |-> resp.uniques, days |-> resp.days]

TrafficBody(resp) ==
    IF resp.status # 200
    THEN ZeroBody
    ELSE [count |-> resp.count, uniques |-> resp.uniques, days |-> resp.days]

\* The dictionary put on the queue.  date_range is a string built from the
\* first and last day of the breakdown when there is one, else None.
MakeRecord(i, repo, vr, cr) ==
    [repository    |-> i,
     views_total   |-> TrafficBody(vr).count,
     views_unique  |-> TrafficBody(vr).uniques,
     clones_total  |-> TrafficBody(cr).count,
     clones_unique |-> TrafficBody(cr).uniques,
     stars         |-> repo.stargazers_count,
     forks         |-> repo.forks_count,
     date_range    |-> IF TrafficBody(vr).days THEN "range" ELSE "none"]

\* result_queue.put(record)
QueuePutOverwriting(q, rec) == <<rec>>

QueuePut(q, rec) == Append(q, rec)

-----------------------------------------------------------------------------
(* get_repo_traffic: pure parts *)

\* rate_response.status_code != 200
AuthFailedOnly401(status) == status = 401

AuthFailed(status) == status # 200

N == Len(task)

InFlight == Cardinality({i \in 1..N : task[i] \in {"views", "clones", "emit"}})

\* A thread of the pool is free to take the next work item.
WorkerAvailableUnbounded == TRUE

WorkerAvailable == InFlight < BATCH_SIZE

\* Leaving the with-block calls executor.shutdown(wait=True).
AllTasksFinishedNoWait == TRUE

AllTasksFinished == \A i \in 1..N : task[i] = "done"

\* The weighted sum of lines 167-174, in units of 0.5.
CombinedMetricsClonesLight(r) ==
    2 * r.views_total + 3 * r.views_unique + 4 * r.clones_total
    + 3 * r.clones_unique + r.stars + 2 * r.forks

CombinedMetrics(r) ==
    2 * r.views_total + 3 * r.views_unique + 4 * r.clones_total
    + 6 * r.clones_unique + r.stars + 2 * r.forks

WithMetric(r) == r @@ ("combined_metrics" :> CombinedMetrics(r))

-----------------------------------------------------------------------------
(* Main script: pure parts *)

Min(a, b) == IF a < b THEN a ELSE b

\* ascending=False: a row may stand above another when its key is not less.
MayPrecedeAscending(a, b) == a <= b

MayPrecede(a, b) == a >= b

IsOrdered(rows, key) ==
    \A k \in 1..(Len(rows) - 1) : MayPrecede(rows[k][key], rows[k + 1][key])

Reorderings(rows) ==
    {[k \in 1..Len(rows) |-> rows[p[k]]] :
        p \in {q \in [1..Len(rows) -> 1..Len(rows)] :
                  \A a, b \in 1..Len(rows) : a # b => q[a] # q[b]}}

\* sort_values(by=key, ascending=False) with the default kind, which does
\* not promise an order among rows of equal key.
SortValues(rows, key) == {s \in Reorderings(rows) : IsOrdered(s, key)}

\* traffic_df['combined_metrics'] > 0
KeepNonEmptyTrafficOnly(r) == r.views_total + r.clones_total > 0

KeepNonEmpty(r) == r.combined_metrics > 0

\* traffic_df['views_total'] > 0
KeepViewed(r) == r.views_total > 0

DropMetric(r) == [f \in (DOMAIN r) \ {"combined_metrics"} |-> r[f]]

SumOf(rows, f) ==
    LET RECURSIVE Go(_)
        Go(k) == IF k = 0 THEN 0 ELSE rows[k][f] + Go(k - 1)
    IN Go(Len(rows))

-----------------------------------------------------------------------------
(* Initial states *)

InitWith(RepoLists, ArgChoices, responsive) ==
    /\ pc = "read_credentials"
    /\ exit_code = -1
    /\ args \in ArgChoices
    /\ creds_ok \in BOOLEAN
    /\ \E l \in RepoLists, ok \in BOOLEAN :
          server = [listing_ok |-> ok, repos |-> l]
    /\ hung \in {h \in SUBSET (1..Len(server.repos)) :
                    Cardinality((1..Len(server.repos)) \ h) <= responsive}
    /\ timeframe = 0
    /\ rate_status = 0
    /\ repos = [is_list |-> TRUE, items |-> <<>>]
    /\ submitted = 0
    /\ task = <<>>
    /\ views_response = <<>>
    /\ clones_response = <<>>
    /\ result_queue = <<>>
    /\ traffic_data = <<>>
    /\ df = <<>>
    /\ sorted_df = <<>>
    /\ traffic_df = <<>>
    /\ requests = [e \in Endpoints |-> 0]
    /\ out = {}
    /\ csv = [written |-> FALSE, rows |-> <<>>]

-----------------------------------------------------------------------------
(* Main thread *)

Exit(code) ==
    /\ pc' = "exited"
    /\ exit_code' = code

\* An exception nobody catches: traceback, exit status 1.
Crash ==
    /\ out' = out \cup {"traceback"}
    /\ Exit(1)

\* read_credentials()
ReadCredentials ==
    /\ pc = "read_credentials"
    /\ IF creds_ok
       THEN /\ pc' = "clamp_timeframe"
            /\ UNCHANGED <<exit_code, out>>
       ELSE /\ out' = out \cup {"credentials_error"}
            /\ Exit(1)
    /\ UNCHANGED <<args, creds_ok, server, hung, timeframe, rate_status,
                   repos, submitted, task, views_response, clones_response,
                   result_queue, traffic_data, df, sorted_df, traffic_df,
                   requests, csv>>

\* timeframe = min(args.timeframe, 14), with the note when it was lowered
ClampTimeframe ==
    /\ pc = "clamp_timeframe"
    /\ timeframe' = Min(args.timeframe, API_MAX_DAYS)
    /\ out' = IF timeframe' < args.timeframe THEN out \cup {"clamp_note"}
              ELSE out
    /\ pc' = "check_auth"
    /\ UNCHANGED <<exit_code, args, creds_ok, server, hung, rate_status,
                   repos, submitted, task, views_response, clones_response,
                   result_queue, traffic_data, df, sorted_df, traffic_df,
                   requests, csv>>

\* get_repo_traffic, up to the rate-limit check
CheckAuth ==
    /\ pc = "check_auth"
    /\ \E status \in AuthStatuses :
          /\ rate_status' = status
          /\ requests' = [requests EXCEPT !["rate_limit"] = @ + 1]
          /\ IF AuthFailed(status)
             THEN /\ out' = out \cup {"starting", "auth_error"}
                           \cup (IF timeframe # 0 THEN {"using_timeframe"}
                                 ELSE {})
                  /\ Exit(1)
             ELSE /\ out' = out \cup {"starting"}
                           \cup (IF timeframe # 0 THEN {"using_timeframe"}
                                 ELSE {})
                  /\ pc' = "list_repos"
                  /\ UNCHANGED exit_code
    /\ UNCHANGED <<args, creds_ok, server, hung, timeframe, repos, submitted,
                   task, views_response, clones_response, result_queue,
                   traffic_data, df, sorted_df, traffic_df, csv>>

\* repos = response.json(): the list of repositories, or the error object
\* of a failed listing (a dictionary)
ListRepos ==
    /\ pc = "list_repos"
    /\ requests' = [requests EXCEPT !["repos"] = @ + 1]
    /\ repos' = IF server.listing_ok
                THEN [is_list |-> TRUE, items |-> server.repos]
                ELSE [is_list |-> FALSE, items |-> <<>>]
    /\ out' = out \cup {"found"}
    /\ pc' = "probe"
    /\ UNCHANGED <<exit_code, args, creds_ok, server, hung, timeframe,
                   rate_status, submitted, task, views_response,
                   clones_response, result_queue, traffic_data, df, sorted_df,
                   traffic_df, csv>>

\* test_repo = repos[0]['name'] if repos else None, the probe of its views,
\* then the queue and the executor are created
Probe ==
    /\ pc = "probe"
    /\ IF ~repos.is_list
       THEN /\ Crash
            /\ UNCHANGED <<requests, task, views_response, clones_response>>
       ELSE /\ IF repos.items # <<>>
               THEN /\ requests' = [requests EXCEPT !["probe"] = @ + 1]
                    /\ out' = IF repos.items[1].views.status = 403
                              THEN out \cup {"permission_warning"}
                              ELSE out
               ELSE UNCHANGED <<requests, out>>
            /\ task' = [i \in 1..Len(repos.items) |-> "unsubmitted"]
            /\ views_response' = [i \in 1..Len(repos.items) |-> NoResponse]
            /\ clones_response' = [i \in 1..Len(repos.items) |-> NoResponse]
            /\ pc' = "submit"
            /\ UNCHANGED exit_code
    /\ UNCHANGED <<args, creds_ok, server, hung, timeframe, rate_status,
                   repos, submitted, result_queue, traffic_data, df,
                   sorted_df, traffic_df, csv>>

\* executor.submit(fetch_repo_traffic, repo, i, ...) for the next repository
Submit ==
    /\ pc = "submit"
    /\ submitted < N
    /\ submitted' = submitted + 1
    /\ task' = [task EXCEPT ![submitted + 1] = "queued"]
    /\ UNCHANGED <<pc, exit_code, args, creds_ok, server, hung, timeframe,
                   rate_status, repos, views_response, clones_response,
                   result_queue, traffic_data, df, sorted_df, traffic_df,
                   requests, out, csv>>

\* End of the with-block: the executor is shut down, which returns when
\* every task has finished.
Shutdown ==
    /\ pc = "submit"
    /\ submitted = N
    /\ AllTasksFinished
    /\ out' = out \cup {"processing_complete"}
    /\ pc' = "drain"
    /\ UNCHANGED <<exit_code, args, creds_ok, server, hung, timeframe,
                   rate_status, repos, submitted, task, views_response,
                   clones_response, result_queue, traffic_data, df, sorted_df,
                   traffic_df, requests, csv>>

\* while not result_queue.empty(): traffic_data.append(result_queue.get())
Drain ==
    /\ pc = "drain"
    /\ IF result_queue # <<>>
       THEN /\ traffic_data' = Append(traffic_data, Head(result_queue))
            /\ result_queue' = Tail(result_queue)
            /\ UNCHANGED pc
       ELSE /\ pc' = "build_df"
            /\ UNCHANGED <<traffic_data, result_queue>>
    /\ UNCHANGED <<exit_code, args, creds_ok, server, hung, timeframe,
                   rate_status, repos, submitted, task, views_response,
                   clones_response, df, sorted_df, traffic_df, requests, out,
                   csv>>

\* df = pd.DataFrame(traffic_data) and the combined_metrics column.  A
\* frame built from an empty list has no columns, so df['views_total']
\* raises KeyError.
BuildDataFrame ==
    /\ pc = "build_df"
    /\ IF traffic_data = <<>>
       THEN /\ Crash
            /\ UNCHANGED df
       ELSE /\ df' = [k \in 1..Len(traffic_data) |-> WithMetric(traffic_data[k])]
            /\ pc' = "sort"
            /\ UNCHANGED <<exit_code, out>>
    /\ UNCHANGED <<args, creds_ok, server, hung, timeframe, rate_status,
                   repos, submitted, task, views_response, clones_response,
                   result_queue, traffic_data, sorted_df, traffic_df,
                   requests, csv>>

\* traffic_df = traffic_df.sort_values(by=args.sort_by, ascending=False)
Sort ==
    /\ pc = "sort"
    /\ \E s \in SortValues(df, args.sort_by) :
          /\ sorted_df' = s
          /\ traffic_df' = s
    /\ pc' = "hide_empty"
    /\ UNCHANGED <<exit_code, args, creds_ok, server, hung, timeframe,
                   rate_status, repos, submitted, task, views_response,
                   clones_response, result_queue, traffic_data, df, requests,
                   out, csv>>

\* if args.hide_empty: keep the rows with combined_metrics > 0
HideEmpty ==
    /\ pc = "hide_empty"
    /\ traffic_df' = IF args.hide_empty
                     THEN SelectSeq(traffic_df, KeepNonEmpty)
                     ELSE traffic_df
    /\ pc' = "no_zero_views"
    /\ UNCHANGED <<exit_code, args, creds_ok, server, hung, timeframe,
                   rate_status, repos, submitted, task, views_response,
                   clones_response, result_queue, traffic_data, df, sorted_df,
                   requests, out, csv>>

\* if args.no_zero_views: keep the rows with views_total > 0
NoZeroViews ==
    /\ pc = "no_zero_views"
    /\ traffic_df' = IF args.no_zero_views
                     THEN SelectSeq(traffic_df, KeepViewed)
                     ELSE traffic_df
    /\ pc' = "write_csv"
    /\ UNCHANGED <<exit_code, args, creds_ok, server, hung, timeframe,
                   rate_status, repos, submitted, task, views_response,
                   clones_response, result_queue, traffic_data, df, sorted_df,
                   requests, out, csv>>

\* if args.write_csv: the frame without combined_metrics goes to the file
WriteCsv ==
    /\ pc = "write_csv"
    /\ csv' = IF args.write_csv
              THEN [written |-> TRUE,
                    rows |-> [k \in 1..Len(traffic_df) |-> DropMetric(traffic_df[k])]]
              ELSE csv
    /\ pc' = "report"
    /\ UNCHANGED <<exit_code, args, creds_ok, server, hung, timeframe,
                   rate_status, repos, submitted, task, views_response,
                   clones_response, result_queue, traffic_data, df, sorted_df,
                   traffic_df, requests, out>>

\* The summary header, the note about missing traffic, the table and the
\* line about the CSV file; the script then ends.
Report ==
    /\ pc = "report"
    /\ out' = out \cup {"header", "table"}
              \cup (IF \E k \in 1..Len(traffic_df) :
                          traffic_df[k].date_range # "none"
                    THEN {"data_period"} ELSE {})
              \cup (IF args.timeframe # 14 THEN {"header_limited"} ELSE {})
              \cup (IF SumOf(traffic_df, "views_total") > 0
                       \/ SumOf(traffic_df, "clones_total") > 0
                    THEN {} ELSE {"no_traffic_note"})
              \cup (IF csv.written THEN {"csv_saved"} ELSE {})
    /\ Exit(0)
    /\ UNCHANGED <<args, creds_ok, server, hung, timeframe, rate_status,
                   repos, submitted, task, views_response, clones_response,
                   result_queue, traffic_data, df, sorted_df, traffic_df,
                   requests, csv>>

-----------------------------------------------------------------------------
(* Threads of the pool running fetch_repo_traffic *)

\* A worker takes the oldest work item and issues the views request.
StartTask(i) ==
    /\ task[i] = "queued"
    /\ \A j \in 1..(i - 1) : task[j] # "queued"
    /\ WorkerAvailable
    /\ task' = [task EXCEPT ![i] = "views"]
    /\ requests' = [requests EXCEPT !["views"] = @ + 1]
    /\ UNCHANGED <<pc, exit_code, args, creds_ok, server, hung, timeframe,
                   rate_status, repos, submitted, views_response,
                   clones_response, result_queue, traffic_data, df, sorted_df,
                   traffic_df, out, csv>>

\* The views response arrives (never, for a hung call: there is no
\* timeout); the clones request is issued.
GetViews(i) ==
    /\ task[i] = "views"
    /\ i \notin hung
    /\ views_response' = [views_response EXCEPT ![i] = repos.items[i].views]
    /\ task' = [task EXCEPT ![i] = "clones"]
    /\ requests' = [requests EXCEPT !["clones"] = @ + 1]
    /\ UNCHANGED <<pc, exit_code, args, creds_ok, server, hung, timeframe,
                   rate_status, repos, submitted, clones_response,
                   result_queue, traffic_data, df, sorted_df, traffic_df, out,
                   csv>>

\* The clones response arrives.
GetClones(i) ==
    /\ task[i] = "clones"
    /\ clones_response' = [clones_response EXCEPT ![i] = repos.items[i].clones]
    /\ task' = [task EXCEPT ![i] = "emit"]
    /\ UNCHANGED <<pc, exit_code, args, creds_ok, server, hung, timeframe,
                   rate_status, repos, submitted, views_response,
                   result_queue, traffic_data, df, sorted_df, traffic_df,
                   requests, out, csv>>

\* The progress line under print_lock, then result_queue.put(...); the task
\* returns and its thread is free again.
Emit(i) ==
    /\ task[i] = "emit"
    /\ out' = out \cup {"progress"}
    /\ result_queue' = QueuePut(result_queue,
                                MakeRecord(i, repos.items[i],
                                           views_response[i],
                                           clones_response[i]))
    /\ task' = [task EXCEPT ![i] = "done"]
    /\ UNCHANGED <<pc, exit_code, args, creds_ok, server, hung, timeframe,
                   rate_status, repos, submitted, views_response,
                   clones_response, traffic_data, df, sorted_df, traffic_df,
                   requests, csv>>

-----------------------------------------------------------------------------
(* Specifications *)

Next ==
    \/ ReadCredentials
    \/ ClampTimeframe
    \/ CheckAuth
    \/ ListRepos
    \/ Probe
    \/ Submit
    \/ Shutdown
    \/ Drain
    \/ BuildDataFrame
    \/ Sort
    \/ HideEmpty
    \/ NoZeroViews
    \/ WriteCsv
    \/ Report
    \/ \E i \in 1..N : StartTask(i)
    \/ \E i \in 1..N : GetViews(i)
    \/ \E i \in 1..N : GetClones(i)
    \/ \E i \in 1..N : Emit(i)

\* Interleavings of the fetch tasks: up to MaxRepos repositories, healthy
\* or degraded, default command line.
Init == InitWith(Listings(MaxRepos, {PHealthy, PNoViews}), {DefaultArgs},
                 MaxRepos + 1)

Spec == Init /\ [][Next]_vars

\* Saturation of the pool: up to PoolRepos repositories of which at most
\* MaxResponsive get answers from the network.
InitPool == InitWith(Listings(PoolRepos, {PHealthy}), {DefaultArgs},
                     MaxResponsive)

SpecPool == InitPool /\ [][Next]_vars

\* Ranking and reporting: up to RankRepos repositories of every profile,
\* under command lines that differ from the default in one option group.
ArgChoices ==
    {[DefaultArgs EXCEPT !.sort_by = k] : k \in SortKeys}
    \cup {[DefaultArgs EXCEPT !.hide_empty = e, !.no_zero_views = z,
                              !.write_csv = e] : e, z \in BOOLEAN}
    \cup {[DefaultArgs EXCEPT !.timeframe = t] : t \in {7, 15, 30}}

InitRank == InitWith(Listings(RankRepos,
                              {PHealthy, PNoViews, PNoClones, PStarsOnly,
                               PZero}),
                     ArgChoices, RankRepos + 1)

SpecRank == InitRank /\ [][Next]_vars

-----------------------------------------------------------------------------
(* Properties *)

AfterFanOut == {"drain", "build_df", "sort", "hide_empty", "no_zero_views",
                "write_csv", "report"}

RecordsOf(rows, i) == {k \in 1..Len(rows) : rows[k].repository = i}

AllRows == result_queue \o traffic_data

C2_AggregationAfterAllTasks ==
    /\ pc \in AfterFanOut =>
          /\ submitted = Len(repos.items)
          /\ \A i \in 1..N : task[i] = "done"
    /\ (\E i \in 1..N : task[i] # "done") =>
          /\ traffic_data = <<>>
          /\ df = <<>>
          /\ sorted_df = <<>>

C2_Witness ==
    /\ pc = "drain"
    /\ N >= 2
    /\ Len(result_queue) = N
    /\ result_queue[1].repository # 1

\* C3: at most 10 fetch tasks are in flight at any time, and a task beyond
\* the tenth is in flight only when enough earlier tasks have finished.
C3_AtMostTenInFlight ==
    /\ Cardinality({i \in 1..N : task[i] \in {"views", "clones", "emit"}}) <= 10
    /\ \A i \in 1..N :
          task[i] \in {"views", "clones", "emit"} =>
             Cardinality({j \in 1..N : task[j] = "done"}) >= i - 10

C3_Witness ==
    /\ Cardinality({i \in 1..N : task[i] \in {"views", "clones", "emit"}}) = 10
    /\ \E i \in 1..N : i > 10 /\ task[i] \in {"views", "clones", "emit"}
    /\ \E j \in 1..N : task[j] = "done"

\* C4: after a rate-limit response other than 200 the process has ended
\* with exit status 1 and the authentication message, the check was made
\* once, and no listing, probe or traffic request, table or CSV exists.
C4_AuthFailureIsFatal ==
    (rate_status # 0 /\ rate_status # 200) =>
        /\ pc = "exited"
        /\ exit_code = 1
        /\ "auth_error" \in out
        /\ requests["rate_limit"] = 1
        /\ requests["repos"] = 0
        /\ requests["probe"] = 0
        /\ requests["views"] = 0
        /\ requests["clones"] = 0
        /\ "table" \notin out
        /\ ~csv.written

C4_Witness ==
    /\ rate_status = 403
    /\ pc = "exited"
    /\ exit_code = 1

\* C5: a run whose credentials load and whose authentication check returns
\* 200 ends with exit status 0 and without an uncaught error.
C5_ZeroExitAfterAuth ==
    (pc = "exited" /\ creds_ok /\ rate_status = 200) =>
        /\ exit_code = 0
        /\ "traceback" \notin out

FamilyAgrees(resp, total, unique) ==
    IF resp.status = 200
    THEN total = resp.count /\ unique = resp.uniques
    ELSE total = 0 /\ unique = 0

RecordAgrees(r) ==
    /\ FamilyAgrees(server.repos[r.repository].views,
                    r.views_total, r.views_unique)
    /\ FamilyAgrees(server.repos[r.repository].clones,
                    r.clones_total, r.clones_unique)
    /\ r.stars = server.repos[r.repository].stargazers_count
    /\ r.forks = server.repos[r.repository].forks_count

RowsAgree(rows) == \A k \in 1..Len(rows) : RecordAgrees(rows[k])

\* C6: in every record, each family's total and unique equal the response's
\* count and uniques when that response is 200 and are 0 otherwise, stars
\* and forks are those of the listing, and every repository still has its
\* record when the frame is sorted and the run ends with status 0.
C6_FamiliesDegradeIndependently ==
    /\ RowsAgree(result_queue)
    /\ RowsAgree(traffic_data)
    /\ RowsAgree(df)
    /\ RowsAgree(sorted_df)
    /\ RowsAgree(traffic_df)
    /\ RowsAgree(csv.rows)
    /\ pc = "sort" => \A i \in 1..N : RecordsOf(df, i) # {}
    /\ (pc = "exited" /\ creds_ok /\ rate_status = 200
           /\ repos.is_list /\ repos.items # <<>>) => exit_code = 0

C6_Witness ==
    /\ pc = "exited"
    /\ exit_code = 0
    /\ \E k \in 1..Len(sorted_df) :
          /\ server.repos[sorted_df[k].repository].views.status # 200
          /\ server.repos[sorted_df[k].repository].views.count > 0
          /\ server.repos[sorted_df[k].repository].clones.status = 200
          /\ sorted_df[k].views_total = 0
          /\ sorted_df[k].clones_total > 0
    /\ \E k \in 1..Len(sorted_df) :
          /\ server.repos[sorted_df[k].repository].clones.status # 200
          /\ sorted_df[k].views_total > 0

NonIncreasing(rows, key) ==
    \A k \in 1..(Len(rows) - 1) : rows[k][key] >= rows[k + 1][key]

TiesInInputOrder(rows, key) ==
    \A k, l \in 1..Len(rows) :
        (k < l /\ rows[k][key] = rows[l][key]) =>
            rows[k].repository < rows[l].repository

SameRecords(a, b) ==
    /\ Len(a) = Len(b)
    /\ \A k \in 1..Len(a) : \E l \in 1..Len(b) : a[k] = b[l]
    /\ \A l \in 1..Len(b) : \E k \in 1..Len(a) : a[k] = b[l]

\* C7 as stated: the rows are in non-increasing order of the sort key and
\* rows of equal key are in the order of the input listing.
C7_StableByInputOrder ==
    /\ NonIncreasing(traffic_df, args.sort_by)
    /\ TiesInInputOrder(traffic_df, args.sort_by)

\* C7 amended: the sorted rows are the records of the run, reordered so
\* that the sort key is non-increasing down the output, and the filters
\* keep that order.
C7_DescendingReordering ==
    /\ NonIncreasing(sorted_df, args.sort_by)
    /\ NonIncreasing(traffic_df, args.sort_by)
    /\ pc \in {"hide_empty", "no_zero_views", "write_csv", "report"} =>
          SameRecords(sorted_df, df)

C7_Witness ==
    /\ pc = "hide_empty"
    /\ Len(sorted_df) >= 2
    /\ sorted_df # df
    /\ sorted_df[1][args.sort_by] > sorted_df[2][args.sort_by]
    /\ args.sort_by # "combined_metrics"

HiddenAsEmpty(r) == args.hide_empty /\ r.combined_metrics = 0

HiddenAsUnviewed(r) == args.no_zero_views /\ r.views_total = 0

Shown(r) == ~HiddenAsEmpty(r) /\ ~HiddenAsUnviewed(r)

ShownAfterHideEmpty(r) == ~HiddenAsEmpty(r)

\* C8: after the first filter the rows are the sorted rows without those of
\* combined_metrics 0 when hide-empty is set; after the second they are the
\* sorted rows without those of combined_metrics 0 (hide-empty) and those
\* of views_total 0 (no-zero-views); no other row is removed.
C8_FiltersRemoveExactlyZeros ==
    /\ pc = "no_zero_views" => traffic_df = SelectSeq(sorted_df, ShownAfterHideEmpty)
    /\ pc \in {"write_csv", "report"} => traffic_df = SelectSeq(sorted_df, Shown)
    /\ (pc = "exited" /\ exit_code = 0) => traffic_df = SelectSeq(sorted_df, Shown)

C8_Witness ==
    /\ pc = "write_csv"
    /\ args.hide_empty
    /\ args.no_zero_views
    /\ Len(traffic_df) = 1
    /\ \E k \in 1..Len(sorted_df) :
          sorted_df[k].views_total = 0 /\ sorted_df[k].combined_metrics > 0

WeightedSum(r) ==
    2 * r.views_total + 3 * r.views_unique + 4 * r.clones_total
    + 6 * r.clones_unique + r.stars + 2 * r.forks

MetricHolds(rows) ==
    \A k \in 1..Len(rows) : rows[k].combined_metrics = WeightedSum(rows[k])

\* C9: every row of the frame, as built, as sorted and as filtered, has
\* combined_metrics equal to views_total*1.0 + views_unique*1.5 +
\* clones_total*2.0 + clones_unique*3.0 + stars*0.5 + forks*1.0 of that row
\* (both sides in units of 0.5).
C9_MetricIsWeightedSum ==
    /\ MetricHolds(df)
    /\ MetricHolds(sorted_df)
    /\ MetricHolds(traffic_df)

C9_Witness ==
    /\ pc = "report"
    /\ \E k \in 1..Len(traffic_df) :
          traffic_df[k].combined_metrics = 0 /\ traffic_df[k].stars = 0
    /\ \E k \in 1..Len(traffic_df) :
          traffic_df[k].clones_unique > 0 /\ traffic_df[k].combined_metrics > 6

TimeframeSet == pc \in {"check_auth", "list_repos", "probe", "submit"} \cup AfterFanOut
                \/ (pc = "exited" /\ creds_ok)

ClampNoticeShown == "clamp_note" \in out \/ "header_limited" \in out

\* C10: the effective timeframe is the request when that is at most 14 and
\* 14 otherwise, and the output says that the request was limited to 14
\* days if and only if the request exceeds 14.
C10_ClampNoticeIffExceeds ==
    /\ TimeframeSet =>
          /\ timeframe = IF args.timeframe <= 14 THEN args.timeframe ELSE 14
          /\ args.timeframe > 14 => "clamp_note" \in out
    /\ ClampNoticeShown => args.timeframe > 14

=============================================================================
